---- MODULE Spec2Model ----
\* A model of telegram_repost_bot.py: TelegramPhotoBot parses exported chat
\* history (HTML), groups consecutive photos by timestamp, publishes one group
\* per cycle to a channel and records the published message ids in a JSON file.
EXTENDS Integers, Sequences, FiniteSets, TLC

\* ---------------------------------------------------------------- bounds
\* Longest document enumerated exhaustively over the entry alphabet.
MaxLen == 3
\* Longest run of same-timestamp photos in the long documents.
MaxRun == 11

\* ----------------------------------------------------- program constants
\* valid_photos[:10]
MaxGroup == 10

photos_folder == "photos"
caption == "caption"
NoCaption == "None"
html_files == << <<"export", "messages.html">>, <<"export", "messages2.html">> >>
AcceptedExt == {"jpg", "jpeg", "png"}

\* -------------------------------------------------------------- helpers
Range(s) == {s[i] : i \in 1..Len(s)}

Min(a, b) == IF a < b THEN a ELSE b

RECURSIVE SeqsUpTo(_, _)
\* all sequences over S of length at most n
SeqsUpTo(S, n) ==
    IF n = 0 THEN {<<>>}
    ELSE LET shorter == SeqsUpTo(S, n - 1)
         IN  shorter \cup {Append(s, x) : s \in {t \in shorter : Len(t) = n - 1}, x \in S}

\* ------------------------------------------------- the archive documents
\* A timestamp title is <<day, month, year, hour, minute, second>> as written
\* in the export ("dd.mm.YYYY HH:MM:SS UTC+03:00"); <<>> is a message without
\* a date div or without its title attribute.
NoTitle == <<>>
T1 == <<1, 1, 2024, 10, 0, 0>>
T2 == <<1, 1, 2024, 10, 0, 5>>
TBad == <<1, 13, 2024, 10, 0, 0>>

\* A photo link is <<directory, stem, extension>>; <<>> is a message without
\* a photo_wrap link.
NoHref == <<>>
HrefA == <<"photos", 1, "jpg">>
HrefB == <<"photos", 2, "JPG">>
HrefG == <<"photos", 3, "gif">>
HrefThumb == <<"thumbs", 1, "jpg">>
HrefMissing == <<"photos", 0, "png">>

Msg(t, h) == [title |-> t, href |-> h]

\* Entries of the exhaustively enumerated documents: the three ways an entry
\* is dropped, and photos under two timestamps.
Entries ==
    {Msg(NoTitle, HrefA), Msg(TBad, HrefA), Msg(T1, NoHref)}
    \cup {Msg(t, h) : t \in {T1, T2}, h \in {HrefA, HrefB, HrefG}}

\* n consecutive photos 1.jpg .. n.jpg under one timestamp
Run(n) == [i \in 1..n |-> Msg(T1, <<"photos", i, "jpg">>)]

Tails == {<<>>, <<Msg(T1, HrefThumb)>>, <<Msg(T2, HrefMissing)>>}

ShortDocs == SeqsUpTo(Entries, MaxLen)
LongDocs == {Run(n) \o t : n \in 1..MaxRun, t \in Tails}

Readable(msgs) == [readable |-> TRUE, messages |-> msgs]
Unreadable == [readable |-> FALSE, messages |-> <<>>]

Docs1 == {Readable(m) : m \in ShortDocs \cup LongDocs}

\* os.path.isfile: the photos folder holds a file for every stem from 1 on
isfile(p) == p[1] = photos_folder /\ p[2] >= 1

VARIABLES
    docs,           \* html file -> document on disk
    sent_file,      \* content of sent_messages.json
    sent_messages,  \* self.sent_messages
    pc,             \* "ready" | "send" | "awaiting" | "done" | "crashed"
    html_file,      \* run_once: the file chosen
    media_groups,   \* run_once: result of parse_html
    group,          \* run_once: the group chosen
    media_group,    \* send_media_group: the request built
    message_ids,    \* send_media_group: ids of the request's items
    result,         \* return value of send_media_group: "True" | "False" | "None"
    call,           \* bot.send_media_group: "none" | "pending" | "ok" | "TelegramError" | "Exception"
    log,            \* last message logged by the cycle
    published       \* ids the channel has accepted in this process run

vars == <<docs, sent_file, sent_messages, pc, html_file, media_groups, group,
          media_group, message_ids, result, call, log, published>>


\* ------------------------------------------------------------ the ledger
Missing == [kind |-> "missing", val |-> <<>>]
Corrupt == [kind |-> "corrupt", val |-> <<>>]
JsonList(l) == [kind |-> "list", val |-> l]

RECURSIVE SetToList(_)
\* list(self.sent_messages): the elements in some order, each once
SetToList(S) ==
    IF S = {} THEN <<>>
    ELSE LET x == CHOOSE y \in S : TRUE IN <<x>> \o SetToList(S \ {x})

\* mutant: the first element of the stored list is lost
load_drops_first(f) ==
    IF f.kind = "list" /\ f.val # <<>> THEN Range(Tail(f.val)) ELSE {}

\* set(json.load(f)); a missing file, undecodable content and a value that is
\* not iterable all end in set()
load_sent_messages(f) == IF f.kind = "list" THEN Range(f.val) ELSE {}

\* mutant: only FileNotFoundError is caught
load_raises_on_corrupt(f) == f.kind = "corrupt"

\* whether load_sent_messages lets an exception out: both except clauses
\* return set()
load_raises(f) == FALSE

\* __init__: where the process stands after loading the ledger
constructed(f) == IF load_raises(f) THEN "crashed" ELSE "ready"

SaveOutcomes == {"ok", "open_fails", "write_fails"}

\* mutant: one id is missing from the list written
save_drops_one(f, sent, outcome) ==
    CASE outcome = "ok" -> JsonList(IF sent = {} THEN <<>> ELSE Tail(SetToList(sent)))
      [] outcome = "open_fails" -> f
      [] OTHER -> Corrupt

\* open(..., 'w') truncates, json.dump writes the list; both failures are
\* caught and logged
save_sent_messages(f, sent, outcome) ==
    CASE outcome = "ok" -> JsonList(SetToList(sent))
      [] outcome = "open_fails" -> f
      [] OTHER -> Corrupt

\* mutant: the ids are never marked
mark_nothing(sent, ids) == sent

\* mutant: only the first id of the request is marked
mark_first_only(sent, ids) == sent \cup {ids[i] : i \in {1} \cap DOMAIN ids}

\* mutant: the ledger is replaced by the ids of the request
mark_replaces(sent, ids) == Range(ids)

\* self.sent_messages.update(message_ids)
mark_sent(sent, ids) == sent \cup Range(ids)

\* mutant: the ids collected so far are marked although the call failed
mark_on_error(sent, ids) == sent \cup Range(ids)

\* the except branches of send_media_group return False and touch nothing
on_send_error(sent, ids) == sent

\* ------------------------------------------------------------ parse_html
\* datetime.strptime(..., '%d.%m.%Y %H:%M:%S') raises ValueError outside
\* these ranges
strptime_ok(t) ==
    /\ t[1] \in 1..31 /\ t[2] \in 1..12
    /\ t[4] \in 0..23 /\ t[5] \in 0..59 /\ t[6] \in 0..59

\* timestamp.strftime('%Y%m%d%H%M%S')
strftime(t) == <<t[3], t[2], t[1], t[4], t[5], t[6]>>

\* os.path.basename(media_link['href'])
basename(href) == <<href[2], href[3]>>

\* os.path.join(self.photos_folder, photo_name)
photo_path(name) == <<photos_folder, name[1], name[2]>>

\* f"{os.path.basename(html_file)}_{photo_name}"
message_id(f, name) == <<f[2], name>>

EmptyDict == [k \in {} |-> <<>>]

Put(d, k, v) == [x \in (DOMAIN d) \cup {k} |-> IF x = k THEN v ELSE d[x]]

None == <<>>

\* the three early `continue`s before the ledger test
malformed(msg) ==
    \/ msg.title = NoTitle
    \/ ~strptime_ok(msg.title)
    \/ msg.href = NoHref

\* mutant: the ledger test is missing
never_sent(id, sent) == FALSE

\* `if message_id in self.sent_messages: continue`
already_sent(id, sent) == id \in sent

\* mutant: the open group is not reset when the timestamp changes
group_step_keep_open(s, time_key, item) ==
    IF s.prev_time = None
    THEN [s EXCEPT !.prev_time = time_key,
                   !.current_group = Append(@, item)]
    ELSE IF time_key = s.prev_time
    THEN [s EXCEPT !.current_group = Append(@, item)]
    ELSE [media_groups |-> Put(s.media_groups, s.prev_time, s.current_group),
          current_group |-> Append(s.current_group, item),
          prev_time |-> time_key]

\* mutant: a record of the open group is put in front of it
group_step_prepend(s, time_key, item) ==
    IF s.prev_time = None
    THEN [s EXCEPT !.prev_time = time_key,
                   !.current_group = Append(@, item)]
    ELSE IF time_key = s.prev_time
    THEN [s EXCEPT !.current_group = <<item>> \o @]
    ELSE [media_groups |-> Put(s.media_groups, s.prev_time, s.current_group),
          current_group |-> <<item>>,
          prev_time |-> time_key]

\* the if / elif / else that extends or closes the open group
group_step(s, time_key, item) ==
    IF s.prev_time = None
    THEN [s EXCEPT !.prev_time = time_key,
                   !.current_group = Append(@, item)]
    ELSE IF time_key = s.prev_time
    THEN [s EXCEPT !.current_group = Append(@, item)]
    ELSE [media_groups |-> IF s.current_group # <<>>
                           THEN Put(s.media_groups, s.prev_time, s.current_group)
                           ELSE s.media_groups,
          current_group |-> <<item>>,
          prev_time |-> time_key]

\* mutant: a skipped entry closes the open group
msg_step_skip_closes(s, msg, f, sent) ==
    LET closed == [s EXCEPT !.media_groups =
                                IF s.current_group # <<>>
                                THEN Put(@, s.prev_time, s.current_group) ELSE @,
                            !.current_group = <<>>]
    IN  IF malformed(msg) THEN closed
        ELSE LET photo_name == basename(msg.href)
                 id == message_id(f, photo_name)
             IN  IF already_sent(id, sent) THEN closed
                 ELSE group_step(s, strftime(msg.title), <<id, photo_path(photo_name)>>)

\* one iteration of `for msg in messages`
msg_step(s, msg, f, sent) ==
    IF malformed(msg) THEN s
    ELSE LET photo_name == basename(msg.href)
             id == message_id(f, photo_name)
         IN  IF already_sent(id, sent) THEN s
             ELSE group_step(s, strftime(msg.title), <<id, photo_path(photo_name)>>)

RECURSIVE parse_loop(_, _, _, _, _)
parse_loop(s, msgs, i, f, sent) ==
    IF i > Len(msgs) THEN s
    ELSE parse_loop(msg_step(s, msgs[i], f, sent), msgs, i + 1, f, sent)

\* mutant: the last group is added to the group already stored under its key
flush_merge(s) ==
    IF s.current_group # <<>>
    THEN Put(s.media_groups, s.prev_time,
             (IF s.prev_time \in DOMAIN s.media_groups
              THEN s.media_groups[s.prev_time] ELSE <<>>) \o s.current_group)
    ELSE s.media_groups

\* the final `if current_group:` flush
flush(s) ==
    IF s.current_group # <<>>
    THEN Put(s.media_groups, s.prev_time, s.current_group)
    ELSE s.media_groups

parse_document(doc, f, sent) ==
    IF ~doc.readable THEN EmptyDict
    ELSE flush(parse_loop([media_groups |-> EmptyDict, current_group |-> <<>>,
                           prev_time |-> None],
                          doc.messages, 1, f, sent))

parse_html(f) == parse_document(docs[f], f, sent_messages)

\* ------------------------------------------------------ send_media_group
Lower(ext) == IF ext = "JPG" THEN "jpg" ELSE ext

\* mutant: the file is not looked for
valid_extension_only(item) == Lower(item[2][3]) \in AcceptedExt

\* os.path.isfile(p) and p.lower().endswith(('.jpg', '.jpeg', '.png'))
is_valid_photo(item) == isfile(item[2]) /\ Lower(item[2][3]) \in AcceptedExt

valid_photos(g) == SelectSeq(g, is_valid_photo)

\* mutant: the slice is one too long
capped_one_more(v) == SubSeq(v, 1, Min(MaxGroup + 1, Len(v)))

\* valid_photos[:10]
capped(v) == SubSeq(v, 1, Min(MaxGroup, Len(v)))

\* mutant: every item carries the caption
caption_on_all(i) == caption

\* caption=self.caption if i == 0 else None
caption_of(i) == IF i = 1 THEN caption ELSE NoCaption

\* the loop that builds media_group and message_ids, n items in
build_media(v, n) == [i \in 1..n |-> [media |-> v[i][2], caption |-> caption_of(i)]]
build_ids(v, n) == [i \in 1..n |-> v[i][1]]

\* ------------------------------------------------------------------ Init
File1 == html_files[1]
File2 == html_files[2]

InitLedgers ==
    {Missing, Corrupt, JsonList(<<message_id(File1, basename(HrefB))>>)}

Init ==
    /\ docs \in {[f \in Range(html_files) |-> IF f = File1 THEN d ELSE Unreadable] :
                    d \in Docs1}
    /\ sent_file \in InitLedgers
    /\ sent_messages = load_sent_messages(sent_file)
    /\ pc = constructed(sent_file)
    /\ html_file = <<>>
    /\ media_groups = EmptyDict
    /\ group = <<>>
    /\ media_group = <<>>
    /\ message_ids = <<>>
    /\ result = "None"
    /\ call = "none"
    /\ log = <<>>
    /\ published = {}

\* --------------------------------------------------------------- run_once
\* what parse_html logs for the file
parse_log(f) == IF docs[f].readable THEN <<"processing">> ELSE <<"processing", "read_error">>

CanStart == pc \in {"ready", "done"}

\* mutant: instead of returning, the cycle goes back to send_media_group
returned_retry ==
    /\ html_file' = <<>>
    /\ media_groups' = EmptyDict
    /\ group' = <<>>
    /\ media_group' = <<>>
    /\ message_ids' = <<>>
    /\ pc' = "send"

\* run_once has returned: its locals and those of send_media_group are gone
Returned ==
    /\ html_file' = <<>>
    /\ media_groups' = EmptyDict
    /\ group' = <<>>
    /\ media_group' = <<>>
    /\ message_ids' = <<>>
    /\ pc' = "done"

\* mutant: the ids are marked before the call is awaited
mark_before_await(sent, ids) == sent \cup Range(ids)

\* building the request and awaiting the call leave the ledger alone
before_await(sent, ids) == sent

\* mutant: a failed save makes the publish a failure
result_false_on_save_error(o) == IF o = "ok" THEN "True" ELSE "False"

\* save_sent_messages swallows its exception: `return True` follows whatever
\* the outcome of the save
result_after_save(o) == "True"

\* mutant: the ids of the batches found are marked while parsing
mark_parsed(sent, mg) ==
    sent \cup UNION {{mg[k][i][1] : i \in 1..Len(mg[k])} : k \in DOMAIN mg}

\* parse_html only reads self.sent_messages
ledger_after_parse(sent, mg) == sent

\* run_once when parse_html returns an empty dict
RunOnceNoGroups ==
    /\ CanStart
    /\ \E f \in Range(html_files) :
         /\ parse_html(f) = EmptyDict
         /\ sent_messages' = ledger_after_parse(sent_messages, parse_html(f))
         /\ log' = parse_log(f) \o <<"no_groups">>
    /\ Returned
    /\ result' = "None"
    /\ call' = "none"
    /\ UNCHANGED <<docs, sent_file, published>>

\* run_once up to the call of send_media_group: pick a file, parse it, pick
\* one of its groups
RunOnceChoose ==
    /\ CanStart
    /\ \E f \in Range(html_files) :
         LET mg == parse_html(f) IN
         \E k \in DOMAIN mg :
            /\ html_file' = f
            /\ media_groups' = mg
            /\ group' = mg[k]
            /\ sent_messages' = ledger_after_parse(sent_messages, mg)
            /\ log' = parse_log(f)
    /\ media_group' = <<>>
    /\ message_ids' = <<>>
    /\ result' = "None"
    /\ call' = "none"
    /\ pc' = "send"
    /\ UNCHANGED <<docs, sent_file, published>>

\* send_media_group finds no valid photo and returns False
SendNoValid ==
    /\ pc = "send"
    /\ valid_photos(group) = <<>>
    /\ Returned
    /\ result' = "False"
    /\ UNCHANGED <<docs, sent_file, sent_messages, call, log, published>>

\* opening the n-th photo (or building its InputMediaPhoto) raises
SendBuildError ==
    /\ pc = "send"
    /\ LET v == capped(valid_photos(group)) IN
       \E n \in 1..Len(v) :
          sent_messages' = on_send_error(sent_messages, build_ids(v, n - 1))
    /\ log' = log \o <<"unexpected_error">>
    /\ Returned
    /\ result' = "False"
    /\ UNCHANGED <<docs, sent_file, call, published>>

\* send_media_group up to `await self.bot.send_media_group(...)`
SendDispatch ==
    /\ pc = "send"
    /\ LET v == capped(valid_photos(group)) IN
         /\ v # <<>>
         /\ media_group' = build_media(v, Len(v))
         /\ message_ids' = build_ids(v, Len(v))
         /\ sent_messages' = before_await(sent_messages, build_ids(v, Len(v)))
    /\ call' = "pending"
    /\ pc' = "awaiting"
    /\ UNCHANGED <<docs, sent_file, html_file, media_groups, group, result, log,
                   published>>

\* the await returns: mark the ids, save, return True
SendOk ==
    /\ pc = "awaiting"
    /\ call' = "ok"
    /\ sent_messages' = mark_sent(sent_messages, message_ids)
    /\ \E o \in SaveOutcomes :
         /\ sent_file' = save_sent_messages(sent_file, sent_messages', o)
         /\ log' = log \o (IF o = "ok" THEN <<>> ELSE <<"save_error">>) \o <<"success">>
         /\ result' = result_after_save(o)
    /\ published' = published \cup Range(message_ids)
    /\ Returned
    /\ UNCHANGED docs

\* the await raises TelegramError or another exception
SendError ==
    /\ pc = "awaiting"
    /\ \E e \in {"TelegramError", "Exception"} :
         /\ call' = e
         /\ log' = log \o <<IF e = "TelegramError" THEN "telegram_error"
                            ELSE "unexpected_error">>
    /\ sent_messages' = on_send_error(sent_messages, message_ids)
    /\ result' = "False"
    /\ Returned
    /\ UNCHANGED <<docs, sent_file, published>>

\* the process ends and the next one is started: __init__ loads the ledger
Restart ==
    /\ pc = "done"
    /\ sent_messages' = load_sent_messages(sent_file)
    /\ pc' = constructed(sent_file)
    /\ result' = "None"
    /\ call' = "none"
    /\ log' = <<>>
    /\ published' = {}
    /\ UNCHANGED <<docs, sent_file, html_file, media_groups, group, media_group,
                   message_ids>>

Next ==
    \/ RunOnceNoGroups
    \/ RunOnceChoose
    \/ SendNoValid
    \/ SendBuildError
    \/ SendDispatch
    \/ SendOk
    \/ SendError
    \/ Restart

Spec == Init /\ [][Next]_vars

\* send_media_group runs without yielding up to the await, and the awaited
\* call returns or raises
FairSpec ==
    /\ Spec
    /\ WF_vars(SendNoValid \/ SendBuildError \/ SendDispatch)
    /\ WF_vars(SendOk \/ SendError)

\* ------------------------------------------------ the surviving records
\* An entry survives when it has a parsable timestamp and a photo link and
\* its id is not in the ledger.
Survives(msg, f, sent) ==
    /\ msg.title # NoTitle
    /\ strptime_ok(msg.title)
    /\ msg.href # NoHref
    /\ message_id(f, basename(msg.href)) \notin sent

Rec(msg, f) ==
    [item |-> <<message_id(f, basename(msg.href)), photo_path(basename(msg.href))>>,
     key |-> strftime(msg.title)]

\* the surviving records of file f under the current ledger, in document order
Survivors(f) ==
    LET sel == SelectSeq(docs[f].messages, LAMBDA m : Survives(m, f, sent_messages))
    IN  [i \in 1..Len(sel) |-> Rec(sel[i], f)]

ItemsOf(S) == [i \in 1..Len(S) |-> S[i].item]

\* the survivors stored under key k, in document order
WithKey(S, k) == SelectSeq(S, LAMBDA r : r.key = k)

RECURSIVE IsSubSeq(_, _)
\* a is b with some elements left out
IsSubSeq(a, b) ==
    IF a = <<>> THEN TRUE
    ELSE IF b = <<>> THEN FALSE
    ELSE IF Head(a) = Head(b) THEN IsSubSeq(Tail(a), Tail(b))
    ELSE IsSubSeq(a, Tail(b))

Count(x, s) == Cardinality({i \in 1..Len(s) : s[i] = x})

BatchIds(mg) == UNION {{mg[k][i][1] : i \in 1..Len(mg[k])} : k \in DOMAIN mg}

\* the last maximal run of key k among the survivors S
LastRun(S, k) ==
    LET j == CHOOSE n \in 1..Len(S) : S[n].key = k /\ \A m \in (n + 1)..Len(S) : S[m].key # k
        i == CHOOSE n \in 1..j : (\A m \in n..j : S[m].key = k)
                                 /\ (n = 1 \/ S[n - 1].key # k)
    IN  SubSeq(S, i, j)

\* key k has two runs among the survivors S with another key in between
TwoRuns(S, k) ==
    \E a, b, c \in 1..Len(S) :
        a < b /\ b < c /\ S[a].key = k /\ S[b].key # k /\ S[c].key = k

\* the record at position p is in a run that a later run of its key replaces
Overwritten(S, p) ==
    \E r, q \in 1..Len(S) :
        p < r /\ r < q /\ S[r].key # S[p].key /\ S[q].key = S[p].key

\* the calls of parse_html to judge in a state: the call run_once has just
\* made (its result is in media_groups), and the call any file would get now
ParseCalls ==
    {<<f, parse_html(f)>> : f \in Range(html_files)}
    \cup (IF pc = "send" THEN {<<html_file, media_groups>>} ELSE {})

\* is_valid_photo as the specification words it: an existing file with an
\* accepted image extension
Acceptable(item) == isfile(item[2]) /\ Lower(item[2][3]) \in AcceptedExt

Ids(items) == {items[i][1] : i \in 1..Len(items)}

\* Cycles over a document whose publish calls all succeed: run_once is started
\* again and again (by cron, one process per cycle, or by a caller that loops
\* in one process), the photos open, and the awaited send_media_group call of
\* the bot returns. The save of the ledger may still fail.
ProgressNext ==
    \/ RunOnceNoGroups
    \/ RunOnceChoose
    \/ SendNoValid
    \/ SendDispatch
    \/ SendOk
    \/ Restart

\* RunOnceChoose is enabled: a cycle may start and some file has a batch
CanChoose == CanStart /\ \E f \in Range(html_files) : DOMAIN parse_html(f) # {}

\* Weak fairness of RunOnceChoose is written out with CanChoose for its
\* enabling condition.
ProgressSpec ==
    /\ Init
    /\ [][ProgressNext]_vars
    /\ ([]<>~CanChoose \/ []<><<RunOnceChoose>>_vars)
    /\ WF_vars(SendNoValid \/ SendDispatch)
    /\ WF_vars(SendOk)

\* ----------------------------------------------------------------- claims
\* C1: a message_id included in a successful publish of this process run is
\* never included in a later publish request.
C1_NoRepost == pc = "awaiting" => Range(message_ids) \cap published = {}

\* C1 witness: a second request is in flight in a process that has already
\* published photos of the same document.
C1_Witness ==
    /\ pc = "awaiting"
    /\ html_file = File1
    /\ published # {}
    /\ \E i \in 1..Len(docs[File1].messages) :
          LET m == docs[File1].messages[i] IN
          ~malformed(m) /\ message_id(File1, basename(m.href)) \in published

\* C2: the ledger, in memory and on disk, changes only in the step in which
\* the channel call of that publish returns success, and only ids of that
\* request (and, on disk, ids already in memory) are added.
C2_SendThenMark ==
    [][LET confirmed == pc = "awaiting" /\ call' = "ok"
           restart == pc = "done" /\ pc' = "ready"
       IN  /\ sent_file' # sent_file => confirmed
           /\ sent_messages' # sent_messages => confirmed \/ restart
           /\ sent_messages' \ sent_messages \subseteq
                 (IF confirmed THEN Range(message_ids) ELSE {})
           /\ load_sent_messages(sent_file') \ load_sent_messages(sent_file) \subseteq
                 (IF confirmed THEN sent_messages \cup Range(message_ids) ELSE {})]_vars

\* C2 witness: a publish has returned success and its ids are in the ledger,
\* in memory and on disk.
C2_Witness ==
    /\ pc = "done" /\ call = "ok" /\ result = "True"
    /\ published # {}
    /\ published \subseteq sent_messages
    /\ published \subseteq load_sent_messages(sent_file)

\* C3: when building or dispatching the request fails, send_media_group
\* returns False and the ledger is unchanged in memory and on disk.
C3_FailureLeavesLedger ==
    [][LET send_fails == pc = "awaiting" /\ call' \in {"TelegramError", "Exception"}
           build_fails == pc = "send" /\ log' = log \o <<"unexpected_error">>
       IN  send_fails \/ build_fails =>
              /\ result' = "False"
              /\ pc' = "done"
              /\ sent_messages' = sent_messages
              /\ sent_file' = sent_file]_vars

\* C3 witness: a channel call has failed with a TelegramError in a process
\* whose ledger is not empty.
C3_Witness ==
    /\ pc = "done" /\ call = "TelegramError" /\ result = "False"
    /\ sent_messages # {}

\* C4: after a publish that returns success, every id of the request is in
\* the ledger and parse_html returns no batch with any of them.
C4_PublishedAreMarked ==
    pc = "done" /\ result = "True" =>
        /\ published \subseteq sent_messages
        /\ \A f \in Range(html_files) : BatchIds(parse_html(f)) \cap published = {}

\* C4 witness: a publish has succeeded and the document still has unsent
\* batches.
C4_Witness ==
    /\ pc = "done" /\ result = "True" /\ published # {}
    /\ parse_html(File1) # EmptyDict

\* C5: no record of any batch parse_html returns has a message_id that is in
\* the ledger at the time of the call.
C5_NoSentIdExtracted ==
    \A c \in ParseCalls : BatchIds(c[2]) \cap sent_messages = {}

\* C5 witness: parse_html has returned batches for a document of which the
\* ledger holds the id of a well-formed entry.
C5_Witness ==
    /\ pc = "send" /\ html_file = File1
    /\ \E i \in 1..Len(docs[File1].messages) :
          LET m == docs[File1].messages[i] IN
          ~malformed(m) /\ message_id(File1, basename(m.href)) \in sent_messages

\* C6 as stated: of a batch with more than 10 valid photos the request holds
\* exactly the first 10 in batch order; on success exactly their ids are
\* committed, and the ids of the excluded items stay out of the ledger and are
\* returned again by the next parse_html of the document.
C6_CapAndRemainder ==
    [][LET V == SelectSeq(group, Acceptable)
           after == parse_document(docs[html_file], html_file, sent_messages')
       IN  pc = "awaiting" /\ call' = "ok" /\ Len(V) > MaxGroup =>
              /\ message_ids = [i \in 1..MaxGroup |-> V[i][1]]
              /\ [i \in 1..Len(media_group) |-> media_group[i].media] =
                    [i \in 1..MaxGroup |-> V[i][2]]
              /\ sent_messages' \ sent_messages = {V[i][1] : i \in 1..MaxGroup}
              /\ \A i \in (MaxGroup + 1)..Len(V) :
                    V[i][1] \notin sent_messages' /\ V[i][1] \in BatchIds(after)]_vars

\* C6 amended: as stated, for the excluded items whose id is not also the id
\* of an included item (an excluded item that repeats an included photo is
\* committed with it and not returned again).
C6_CapAndDistinctRemainder ==
    [][LET V == SelectSeq(group, Acceptable)
           after == parse_document(docs[html_file], html_file, sent_messages')
       IN  pc = "awaiting" /\ call' = "ok" /\ Len(V) > MaxGroup =>
              /\ message_ids = [i \in 1..MaxGroup |-> V[i][1]]
              /\ [i \in 1..Len(media_group) |-> media_group[i].media] =
                    [i \in 1..MaxGroup |-> V[i][2]]
              /\ sent_messages' \ sent_messages = {V[i][1] : i \in 1..MaxGroup}
              /\ \A i \in (MaxGroup + 1)..Len(V) :
                    V[i][1] \notin {V[j][1] : j \in 1..MaxGroup} =>
                       V[i][1] \notin sent_messages' /\ V[i][1] \in BatchIds(after)]_vars

\* C6 witness: 10 photos of a longer document have been published and
\* parse_html returns a valid photo that was left out.
C6_Witness ==
    /\ pc = "done" /\ result = "True"
    /\ Cardinality(published) = MaxGroup
    /\ Len(docs[File1].messages) > MaxGroup
    /\ \E k \in DOMAIN parse_html(File1) :
          \E i \in 1..Len(parse_html(File1)[k]) :
             /\ Acceptable(parse_html(File1)[k][i])
             /\ parse_html(File1)[k][i][2][2] > MaxGroup

\* C7: when no record of the batch refers to an existing file with an
\* accepted extension, send_media_group returns False, makes no channel call
\* and leaves the ledger unchanged.
C7_NoValidPhotos ==
    [][pc = "send" /\ (\A i \in 1..Len(group) : ~Acceptable(group[i])) =>
          /\ result' = "False"
          /\ pc' = "done"
          /\ call' = "none"
          /\ sent_messages' = sent_messages
          /\ sent_file' = sent_file]_vars

\* C7 witness: send_media_group has returned False without a channel call and
\* without an error, which only the empty valid_photos path does.
C7_Witness ==
    /\ pc = "done" /\ result = "False" /\ call = "none"
    /\ log = <<"processing">>

\* C8 as stated: every surviving record is in exactly one batch (the batches
\* hold each surviving item as often as the survivors do).
C8_Partition ==
    \A c \in ParseCalls :
        LET S == Survivors(c[1])
            mg == c[2]
        IN  /\ \A k \in DOMAIN mg : Range(mg[k]) \subseteq Range(ItemsOf(S))
            /\ \A x \in Range(ItemsOf(S)) :
                  Count(x, ItemsOf(S)) =
                      Cardinality({<<k, i>> \in (DOMAIN mg) \X (1..Len(S)) :
                                      i <= Len(mg[k]) /\ mg[k][i] = x})

\* C8 amended: no record is in two batches; a surviving record is in exactly
\* one batch unless a later, non-adjacent run of its time_key replaces its run,
\* and then it is in none.
C8_PartitionOfKeptRuns ==
    \A c \in ParseCalls :
        LET S == Survivors(c[1])
            mg == c[2]
        IN  /\ \A k \in DOMAIN mg : Range(mg[k]) \subseteq Range(ItemsOf(S))
            /\ \A x \in Range(ItemsOf(S)) :
                  Cardinality({p \in 1..Len(S) : S[p].item = x /\ ~Overwritten(S, p)}) =
                      Cardinality({<<k, i>> \in (DOMAIN mg) \X (1..Len(S)) :
                                      i <= Len(mg[k]) /\ mg[k][i] = x})

\* C8 witness: parse_html has returned two batches for a document in which a
\* later run replaces an earlier one.
C8_Witness ==
    /\ pc = "send" /\ html_file = File1
    /\ \E p \in 1..Len(Survivors(File1)) : Overwritten(Survivors(File1), p)
    /\ Cardinality(DOMAIN media_groups) = 2

\* C9: when a time_key has two non-adjacent runs of surviving records, the map
\* holds under it exactly the records of the later run.
C9_LastRunWins ==
    \A c \in ParseCalls :
        LET S == Survivors(c[1])
            mg == c[2]
        IN  \A k \in {S[i].key : i \in 1..Len(S)} :
               TwoRuns(S, k) => k \in DOMAIN mg /\ mg[k] = ItemsOf(LastRun(S, k))

\* C9 witness: parse_html has returned, for a key with two non-adjacent runs,
\* fewer records than the document has under that key.
C9_Witness ==
    /\ pc = "send" /\ html_file = File1
    /\ \E k \in DOMAIN media_groups :
          /\ TwoRuns(Survivors(File1), k)
          /\ Len(WithKey(Survivors(File1), k)) > Len(media_groups[k])

\* C10: every batch is non-empty, its records have the key it is stored under
\* and stand in document order.
C10_BatchShape ==
    \A c \in ParseCalls :
        LET S == Survivors(c[1])
            mg == c[2]
        IN  \A k \in DOMAIN mg :
               mg[k] # <<>> /\ IsSubSeq(mg[k], ItemsOf(WithKey(S, k)))

\* C10 witness: parse_html has returned two batches, one of them with two
\* different records.
C10_Witness ==
    /\ pc = "send" /\ html_file = File1
    /\ Cardinality(DOMAIN media_groups) = 2
    /\ \E k \in DOMAIN media_groups :
          Len(media_groups[k]) >= 2 /\ media_groups[k][1] # media_groups[k][2]

\* C11 as stated: a document that cannot be opened ends the cycle in an
\* extraction failure, not in the "no unsent media groups" branch that a
\* readable document without qualifying entries takes.
C11_ReadFailureIsNotNoGroups ==
    pc = "done" /\ "read_error" \in Range(log) => "no_groups" \notin Range(log)

\* C11: what the code does instead: parse_html returns the same empty dict for
\* an unreadable document, and run_once takes the "no unsent media groups"
\* branch.
C11_ReadFailureEndsAsNoGroups ==
    /\ pc = "done" /\ "read_error" \in Range(log) => "no_groups" \in Range(log)
    /\ \A f \in Range(html_files) : ~docs[f].readable => parse_html(f) = EmptyDict

\* C12: after a commit whose save succeeds, a fresh process loads exactly the
\* ids of the ledger before the commit together with the committed ids.
C12_LedgerRoundTrip ==
    [][/\ pc = "awaiting" /\ call' = "ok" /\ log' = log \o <<"success">> =>
             load_sent_messages(sent_file') = sent_messages \cup Range(message_ids)
       /\ pc = "done" /\ pc' = "ready" =>
             sent_messages' = load_sent_messages(sent_file)]_vars

\* C12 witness: a fresh process has loaded a ledger that holds the id it held
\* before the first commit and committed ids.
C12_Witness ==
    /\ pc = "ready" /\ sent_file.kind = "list"
    /\ message_id(File1, basename(HrefB)) \in sent_messages
    /\ Cardinality(sent_messages) >= 2
    /\ sent_messages = Range(sent_file.val)

\* C13: loading never fails: with a missing or undecodable file the process
\* starts with the empty ledger and run_once can start on some file.
C13_LoadNeverFails ==
    /\ pc # "crashed"
    /\ pc = "ready" /\ sent_file.kind \in {"missing", "corrupt"} =>
          /\ sent_messages = {}
          /\ CanStart
          /\ \E f \in Range(html_files) :
                parse_html(f) = EmptyDict \/ DOMAIN parse_html(f) # {}

\* C13 witness: a cycle is under way in a process that started from an
\* undecodable ledger file.
C13_Witness ==
    pc = "send" /\ sent_file.kind = "corrupt" /\ sent_messages = {}

\* C14: when the save after a successful publish fails, send_media_group still
\* returns True, the sent ids are in the in-memory ledger (and stay there for
\* the run, so parse_html does not return them), and the file lacks them.
C14_SaveFailureKeepsMemory ==
    /\ [][pc = "awaiting" /\ call' = "ok" /\ "save_error" \in Range(log') =>
             /\ result' = "True"
             /\ pc' = "done"
             /\ Range(message_ids) \subseteq sent_messages'
             /\ Range(message_ids) \cap load_sent_messages(sent_file') = {}
             /\ \A f \in Range(html_files) :
                   BatchIds(parse_document(docs[f], f, sent_messages'))
                       \cap Range(message_ids) = {}]_vars
    /\ [](published \subseteq sent_messages)

\* C14 witness: a later cycle of a process whose published ids are in memory
\* and not in the file.
C14_Witness ==
    /\ pc = "send"
    /\ published # {}
    /\ published \subseteq sent_messages
    /\ published \cap load_sent_messages(sent_file) = {}

\* C15: a call of parse_html, whatever the document and the outcome, leaves
\* the in-memory ledger and the ledger file unchanged.
C15_ParseReadsOnly ==
    [][(pc \in {"ready", "done"} /\ pc' \in {"send", "done"}) =>
          (sent_messages' = sent_messages /\ sent_file' = sent_file)]_vars

\* C15 witness: parse_html has returned batches in a process with a ledger
\* that is not empty.
C15_Witness ==
    /\ pc = "send" /\ html_file = File1
    /\ sent_messages # {}
    /\ sent_messages = load_sent_messages(sent_file)

\* C16: every cycle ends without an error getting out: the step that resolves
\* the await ends it, a channel call is only started from send_media_group and
\* once per cycle, none is made when the batch map is empty, and a cycle that
\* has entered send_media_group reaches its end.
C16_CycleEnds ==
    /\ [][/\ pc = "awaiting" => pc' = "done"
          /\ call' = "pending" /\ call # "pending" => pc = "send" /\ call = "none"
          /\ (pc \in {"ready", "done"} /\ pc' = "done") => call' = "none"
          /\ pc' # "crashed"]_vars
    /\ (pc \in {"send", "awaiting"} ~> pc = "done")

\* C16 witness: a cycle has ended after its channel call raised an exception
\* that is not a TelegramError.
C16_Witness ==
    /\ pc = "done" /\ call = "Exception" /\ result = "False"
    /\ log = <<"processing", "unexpected_error">>

\* C17: in every request built, of 1 to 10 items, the first item carries the
\* caption and no other item carries one.
C17_CaptionOnFirstOnly ==
    pc = "awaiting" =>
        /\ Len(media_group) \in 1..MaxGroup
        /\ media_group[1].caption = caption
        /\ \A i \in 2..Len(media_group) : media_group[i].caption = NoCaption

\* C17 witness: a request of 10 items is in flight.
C17_Witness == pc = "awaiting" /\ Len(media_group) = MaxGroup /\ call = "pending"

\* a record the extraction keeps whatever the ledger holds
Qualifies(msg) == Survives(msg, File1, {})

\* every photo file the first document refers to is valid
AllValid ==
    \A i \in 1..Len(docs[File1].messages) :
        LET msg == docs[File1].messages[i]
        IN  Qualifies(msg) => Acceptable(Rec(msg, File1).item)

\* extraction returns no batches and every qualifying record is in the ledger
Drained ==
    /\ parse_html(File1) = EmptyDict
    /\ \A i \in 1..Len(docs[File1].messages) :
          LET msg == docs[File1].messages[i]
          IN  Qualifies(msg) => Rec(msg, File1).item[1] \in sent_messages

\* a save of the ledger has just failed
SaveFailed == "save_error" \in Range(log)

\* every successful publish adds an id that was not in the ledger
PublishAddsNewId ==
    [][(pc = "awaiting" /\ call' = "ok") =>
          /\ sent_messages \subseteq sent_messages'
          /\ Range(message_ids) \subseteq sent_messages'
          /\ Range(message_ids) \ sent_messages # {}]_vars

PrefixState(f, n) ==
    parse_loop([media_groups |-> EmptyDict, current_group |-> <<>>,
                prev_time |-> None],
               SubSeq(docs[f].messages, 1, n), 1, f, sent_messages)

\* entries i < j of file f survive with the same time_key and every entry
\* between them is skipped
SeparatedBySkipped(f, i, j) ==
    LET msgs == docs[f].messages
    IN  /\ i < j
        /\ Survives(msgs[i], f, sent_messages)
        /\ Survives(msgs[j], f, sent_messages)
        /\ Rec(msgs[i], f).key = Rec(msgs[j], f).key
        /\ \A n \in (i + 1)..(j - 1) : ~Survives(msgs[n], f, sent_messages)

\* C19: a skipped entry leaves the open batch and the open time_key as they
\* are, so two surviving records with the same time_key separated only by
\* skipped entries are neighbours in the open batch, and in the batch stored
\* under their key when no later record closes it; the batches returned are
\* those of the document without its skipped entries.
C19_SkippedAreTransparent ==
    \A f \in Range(html_files) :
        LET msgs == docs[f].messages
            last == Len(msgs)
            kept == SelectSeq(msgs, LAMBDA m : Survives(m, f, sent_messages))
        IN  /\ parse_html(f) = parse_document(Readable(kept), f, sent_messages)
            /\ \A n \in 1..last :
                  ~Survives(msgs[n], f, sent_messages)
                      => PrefixState(f, n) = PrefixState(f, n - 1)
            /\ \A i, j \in 1..last :
                  SeparatedBySkipped(f, i, j) =>
                      LET s == PrefixState(f, j)
                          g == s.current_group
                      IN  /\ s.prev_time = Rec(msgs[j], f).key
                          /\ Len(g) >= 2
                          /\ g[Len(g) - 1] = Rec(msgs[i], f).item
                          /\ g[Len(g)] = Rec(msgs[j], f).item
                          /\ (\A n \in (j + 1)..last :
                                 ~Survives(msgs[n], f, sent_messages))
                                => \A c \in ParseCalls :
                                      c[1] = f => c[2][s.prev_time] = g

\* C19 witness: the batch chosen holds the first and the third entry of a
\* document whose second entry was skipped.
C19_Witness ==
    /\ pc = "send"
    /\ Len(docs[html_file].messages) = 3
    /\ SeparatedBySkipped(html_file, 1, 3)
    /\ group = <<Rec(docs[html_file].messages[1], html_file).item,
                 Rec(docs[html_file].messages[3], html_file).item>>

\* C20: within one process run the in-memory ledger only grows; after a
\* commit whose save succeeds the ids in the ledger file are those of the
\* in-memory ledger; at all times the ids in the file are in the in-memory
\* ledger.
C20_LedgerGrowsFileFollows ==
    /\ [][/\ ~(pc = "done" /\ pc' = "ready") => sent_messages \subseteq sent_messages'
          /\ (pc = "awaiting" /\ call' = "ok" /\ "save_error" \notin Range(log')) =>
                load_sent_messages(sent_file') = sent_messages']_vars
    /\ [](load_sent_messages(sent_file) \subseteq sent_messages)

\* C20 witness: a process has committed twice, the first save succeeded and
\* the second failed, so the file holds some but not all published ids.
C20_Witness ==
    /\ pc = "done"
    /\ published \cap load_sent_messages(sent_file) # {}
    /\ published \ load_sent_messages(sent_file) # {}
    /\ load_sent_messages(sent_file) \subseteq sent_messages

====
